---- MODULE Spec2Model ----
(***************************************************************************)
(* Model of src/Service.h: CServiceFunction (a posted callable with an     *)
(* optional CServiceFunctionHandler) and CServiceThread (a deque of        *)
(* CServiceFunction*, one mutex, one condition variable, two atomic flags  *)
(* and one worker thread running Wait()).                                  *)
(*                                                                         *)
(* Threads: the worker (Wait), NumProducers producer threads calling       *)
(* Post / Post-with-handler / TryPost, one thread that may call Release()  *)
(* and one that may call ReleaseAfterWork().  Every statement that touches *)
(* shared state is one step.                                               *)
(***************************************************************************)
EXTENDS Integers, Sequences, FiniteSets, TLC

\* ------------------------------------------------------------------ bounds
NumProducers == 2
MaxTasks == 2

Producers == 1..NumProducers
Worker == NumProducers + 1
\* The threads that call Release() and ReleaseAfterWork().
ReleaseCaller == NumProducers + 2
ReleaseAfterWorkCaller == NumProducers + 3
TaskIds == 1..MaxTasks

\* The three call shapes of the posting interface.
PostKinds == {"Post", "PostHandler", "TryPost"}

\* Ways the process ends abnormally.  "none" means it has not.
CrashKinds == {"none", "null_handler", "task_threw", "lock_error",
               "double_delete", "use_after_free", "empty_front"}

VARIABLES
    m_WorkQueue,      \* std::deque<CServiceFunction*>: sequence of task ids
    m_bWork,          \* atomic_bool, true while running
    m_bDeleteLater,   \* atomic_bool, true once ReleaseAfterWork() ran
    m_Mutex,          \* 0 = unlocked, otherwise the owning thread
    cvSignal,         \* the worker is blocked in wait() and has been notified
    wpc,              \* the worker's position in Wait()
    f,                \* Wait()'s local f: the dequeued task, 0 if none
    ppc,              \* each producer's position in its Post/TryPost call
    ptask,            \* the task each producer is posting, 0 if none
    pkind,            \* the call each producer is in, "none" if idle
    pret,             \* the value a TryPost is returning (at "ret")
    rpc,              \* position of the thread calling Release()
    dpc,              \* position of the thread calling ReleaseAfterWork()
    nextId,           \* next unused task id
    m_pHandler,       \* per task: TRUE iff the handle has a handler
    alive,            \* whether the CServiceThread has not been deleted
    crash,            \* how the process died, "none" if it did not
    \* ---- observation only (never read by an action's guard)
    created,          \* handles allocated by new CServiceFunction
    relCount,         \* per task: how often CServiceFunction::Release ran
    enqLog,           \* task ids in the order of push_back
    trace,            \* <<event, id>> in the order the worker produced them
    lateCall,         \* tasks whose call began after a shutdown flag was set
    atRelease,        \* tasks in the queue when Release() cleared m_bWork
    atDeleteLater,    \* tasks in the queue when ReleaseAfterWork() set its flag
    freeCount,        \* how often the CServiceThread was deleted
    uaf               \* calls that touched the instance after it was deleted

vars == <<m_WorkQueue, m_bWork, m_bDeleteLater, m_Mutex, cvSignal, wpc, f,
          ppc, ptask, pkind, pret, rpc, dpc, nextId, m_pHandler, alive, crash,
          created, relCount, enqLog, trace, lateCall, atRelease, atDeleteLater,
          freeCount, uaf>>

shared == <<m_WorkQueue, m_bWork, m_bDeleteLater, m_Mutex, cvSignal>>
workerv == <<wpc, f>>
producerv == <<ppc, ptask, pkind, pret, nextId, m_pHandler>>
shutv == <<rpc, dpc>>
obsv == <<created, relCount, enqLog, trace, lateCall, atRelease,
          atDeleteLater, uaf>>

\* ------------------------------------------------------------------ helpers
Range(s) == {s[i] : i \in 1..Len(s)}

IsPrefix(s, t) == Len(s) <= Len(t) /\ SubSeq(t, 1, Len(s)) = s

\* Ids of the events of one kind, in trace order.
RECURSIVE EventIds(_, _)
EventIds(tr, kind) ==
    IF tr = <<>> THEN <<>>
    ELSE LET rest == EventIds(Tail(tr), kind)
         IN IF Head(tr)[1] = kind THEN <<Head(tr)[2]>> \o rest ELSE rest

\* A slip: the worker takes the newest handle instead of the oldest.
FrontTakesBack(q) == q[Len(q)]

\* m_WorkQueue[0]
Front(q) == q[1]

\* m_WorkQueue.pop_front()
PopFront(q) == Tail(q)

\* m_WorkQueue.pop_back()
PopBack(q) == SubSeq(q, 1, Len(q) - 1)

\* A slip: wait() is called without a predicate and returns on any wakeup.
WaitPredicateAlwaysTrue == TRUE

\* The lambda handed to m_Condition.wait.
WaitPredicate == m_WorkQueue # <<>> \/ m_bDeleteLater \/ ~m_bWork

\* A slip: the first termination test forgets to look at the queue.
DeleteLaterIgnoresQueue == m_bDeleteLater

\* The first termination test of the loop.
DrainedAfterDeleteLater == m_bDeleteLater /\ m_WorkQueue = <<>>

\* A slip: posting looks at the run-state flag only.
CanPostIgnoresDeleteLater == m_bWork

\* The test every Post/TryPost makes before it allocates a handle.
CanPost == ~m_bDeleteLater /\ m_bWork

\* m_Condition.notify_all(): wakes the worker if it is blocked in wait().
NotifyAll == cvSignal \/ wpc = "wait"

\* A step with undefined behaviour either kills the process or goes on.
UBOutcomes(kind) == {kind, "none"}

Init ==
    /\ m_WorkQueue = <<>>
    /\ m_bWork = TRUE
    /\ m_bDeleteLater = FALSE
    /\ m_Mutex = 0
    /\ cvSignal = FALSE
    /\ wpc = "start"
    /\ f = 0
    /\ ppc = [p \in Producers |-> "idle"]
    /\ ptask = [p \in Producers |-> 0]
    /\ pkind = [p \in Producers |-> "none"]
    /\ pret = [p \in Producers |-> FALSE]
    /\ rpc = "idle"
    /\ dpc = "idle"
    /\ nextId = 1
    /\ m_pHandler = [t \in TaskIds |-> FALSE]
    /\ alive = TRUE
    /\ crash = "none"
    /\ created = {}
    /\ relCount = [t \in TaskIds |-> 0]
    /\ enqLog = <<>>
    /\ trace = <<>>
    /\ lateCall = {}
    /\ atRelease = {}
    /\ atDeleteLater = {}
    /\ freeCount = 0
    /\ uaf = {}

Running == crash = "none"

\* ------------------------------------------------------------------ worker
\* Wait(): boost::mutex::scoped_lock lock(m_Mutex);
WStart ==
    /\ Running /\ wpc = "start" /\ m_Mutex = 0
    /\ m_Mutex' = Worker
    /\ wpc' = "loop"
    /\ UNCHANGED <<m_WorkQueue, m_bWork, m_bDeleteLater, cvSignal, f>>
    /\ UNCHANGED <<producerv, shutv, obsv, alive, crash, freeCount>>

\* A slip: the loop does not take the lock again after a task ran unlocked.
WLoopSkipsRelock ==
    /\ Running /\ wpc = "loop"
    /\ wpc' = IF ~m_bWork THEN "exit" ELSE "pred"
    /\ UNCHANGED <<shared, f, producerv, shutv, obsv, alive, crash, freeCount>>

\* while (m_bWork) { if (!lock.owns_lock()) ...
WLoop ==
    /\ Running /\ wpc = "loop"
    /\ wpc' = IF ~m_bWork THEN "exit"
              ELSE IF m_Mutex = Worker THEN "pred" ELSE "lock"
    /\ UNCHANGED <<shared, f, producerv, shutv, obsv, alive, crash, freeCount>>

\* lock.lock();
WLock ==
    /\ Running /\ wpc = "lock" /\ m_Mutex = 0
    /\ m_Mutex' = Worker
    /\ wpc' = "pred"
    /\ UNCHANGED <<m_WorkQueue, m_bWork, m_bDeleteLater, cvSignal, f>>
    /\ UNCHANGED <<producerv, shutv, obsv, alive, crash, freeCount>>

\* m_Condition.wait(lock, pred): while (!pred()) wait(lock);
WPred ==
    /\ Running /\ wpc = "pred"
    /\ wpc' = IF WaitPredicate THEN "chk1" ELSE "block"
    /\ UNCHANGED <<shared, f, producerv, shutv, obsv, alive, crash, freeCount>>

\* wait(lock): the mutex is released and the worker becomes a waiter.  A
\* notify_all() issued before this step finds no waiter.
WBlock ==
    /\ Running /\ wpc = "block"
    /\ m_Mutex' = 0
    /\ cvSignal' = FALSE
    /\ wpc' = "wait"
    /\ UNCHANGED <<m_WorkQueue, m_bWork, m_bDeleteLater, f>>
    /\ UNCHANGED <<producerv, shutv, obsv, alive, crash, freeCount>>

\* wait(lock) returns: the notified worker re-acquires the mutex.
WWake ==
    /\ Running /\ wpc = "wait" /\ cvSignal /\ m_Mutex = 0
    /\ m_Mutex' = Worker
    /\ cvSignal' = FALSE
    /\ wpc' = "pred"
    /\ UNCHANGED <<m_WorkQueue, m_bWork, m_bDeleteLater, f>>
    /\ UNCHANGED <<producerv, shutv, obsv, alive, crash, freeCount>>

\* A condition variable may wake a waiter that nobody notified.
WSpurious ==
    /\ Running /\ wpc = "wait" /\ ~cvSignal
    /\ cvSignal' = TRUE
    /\ UNCHANGED <<m_WorkQueue, m_bWork, m_bDeleteLater, m_Mutex, workerv>>
    /\ UNCHANGED <<producerv, shutv, obsv, alive, crash, freeCount>>

\* if (m_bDeleteLater && m_WorkQueue.empty())
WChk1 ==
    /\ Running /\ wpc = "chk1"
    /\ wpc' = IF DrainedAfterDeleteLater THEN "unlock149" ELSE "chk2"
    /\ UNCHANGED <<shared, f, producerv, shutv, obsv, alive, crash, freeCount>>

\* if (!m_bWork)
WChk2 ==
    /\ Running /\ wpc = "chk2"
    /\ wpc' = IF ~m_bWork THEN "unlock155" ELSE "deq"
    /\ UNCHANGED <<shared, f, producerv, shutv, obsv, alive, crash, freeCount>>

\* lock.unlock(); return SafeRelease();   (both termination tests)
WUnlockRelease ==
    /\ Running /\ wpc \in {"unlock149", "unlock155"}
    /\ m_Mutex' = 0
    /\ wpc' = "clear"
    /\ UNCHANGED <<m_WorkQueue, m_bWork, m_bDeleteLater, cvSignal, f>>
    /\ UNCHANGED <<producerv, shutv, obsv, alive, crash, freeCount>>

\* auto f = m_WorkQueue[0]; m_WorkQueue.pop_front();
\* Reading the front of an empty deque is undefined.
WDeq ==
    /\ Running /\ wpc = "deq"
    /\ IF m_WorkQueue = <<>>
       THEN /\ crash' = "empty_front"
            /\ UNCHANGED <<m_WorkQueue, wpc, f>>
       ELSE /\ f' = Front(m_WorkQueue)
            /\ m_WorkQueue' = PopFront(m_WorkQueue)
            /\ wpc' = "unlock162"
            /\ crash' = crash
    /\ UNCHANGED <<m_bWork, m_bDeleteLater, m_Mutex, cvSignal>>
    /\ UNCHANGED <<producerv, shutv, obsv, alive, freeCount>>

\* A slip: the task is run without releasing the lock first.
WUnlockKeepsLock ==
    /\ Running /\ wpc = "unlock162"
    /\ wpc' = "run65"
    /\ UNCHANGED <<shared, f, producerv, shutv, obsv, alive, crash, freeCount>>

\* lock.unlock();   (before f->Run())
WUnlock ==
    /\ Running /\ wpc = "unlock162"
    /\ m_Mutex' = 0
    /\ wpc' = "run65"
    /\ UNCHANGED <<m_WorkQueue, m_bWork, m_bDeleteLater, cvSignal, f>>
    /\ UNCHANGED <<producerv, shutv, obsv, alive, crash, freeCount>>

\* A slip: Run() calls OnReturnFunction first and OnCallFunction last.
RunEventHooksSwapped(pc) ==
    CASE pc = "run65" -> "after"
      [] pc = "run66" -> "body"
      [] pc = "run67" -> "before"

\* What Run() does at each of its three statements for a handle with a handler.
RunEvent(pc) ==
    CASE pc = "run65" -> "before"
      [] pc = "run66" -> "body"
      [] pc = "run67" -> "after"

\* f->Run(): m_pHandler->OnCallFunction();
\* A handle built without a handler holds NULL there: the call is undefined.
WRun65 ==
    /\ Running /\ wpc = "run65"
    /\ IF m_pHandler[f]
       THEN /\ trace' = trace \o <<<<"run", f>>, <<RunEvent(wpc), f>>>>
            /\ wpc' = "run66"
            /\ crash' = crash
       ELSE /\ trace' = Append(trace, <<"run", f>>)
            /\ \E c \in UBOutcomes("null_handler") :
                  /\ crash' = c
                  /\ wpc' = IF c = "none" THEN "run66" ELSE wpc
    /\ UNCHANGED <<shared, f, producerv, shutv, alive, freeCount>>
    /\ UNCHANGED <<created, relCount, enqLog, lateCall, atRelease,
                   atDeleteLater, uaf>>

\* A slip: Run() calls OnReturnFunction on the way out of a failed callable.
WRun66AfterOnFailure ==
    /\ Running /\ wpc = "run66"
    /\ \E raised \in BOOLEAN :
          IF raised
          THEN /\ crash' = "task_threw"
               /\ trace' = IF m_pHandler[f]
                           THEN Append(trace, <<"after", f>>) ELSE trace
               /\ wpc' = wpc
          ELSE /\ trace' = Append(trace, <<"body", f>>)
               /\ wpc' = "run67"
               /\ crash' = crash
    /\ UNCHANGED <<shared, f, producerv, shutv, alive, freeCount>>
    /\ UNCHANGED <<created, relCount, enqLog, lateCall, atRelease,
                   atDeleteLater, uaf>>

\* m_Context->run();  The callable returns or raises; an exception leaves
\* Run(), Wait() and the thread function, and nothing catches it.
WRun66 ==
    /\ Running /\ wpc = "run66"
    /\ \E raised \in BOOLEAN :
          IF raised
          THEN /\ crash' = "task_threw"
               /\ UNCHANGED <<wpc, trace>>
          ELSE /\ trace' = Append(trace, <<RunEvent(wpc), f>>)
               /\ wpc' = "run67"
               /\ crash' = crash
    /\ UNCHANGED <<shared, f, producerv, shutv, alive, freeCount>>
    /\ UNCHANGED <<created, relCount, enqLog, lateCall, atRelease,
                   atDeleteLater, uaf>>

\* m_pHandler->OnReturnFunction();
WRun67 ==
    /\ Running /\ wpc = "run67"
    /\ IF m_pHandler[f]
       THEN /\ trace' = Append(trace, <<RunEvent(wpc), f>>)
            /\ wpc' = "frel"
            /\ crash' = crash
       ELSE /\ trace' = trace
            /\ \E c \in UBOutcomes("null_handler") :
                  /\ crash' = c
                  /\ wpc' = IF c = "none" THEN "frel" ELSE wpc
    /\ UNCHANGED <<shared, f, producerv, shutv, alive, freeCount>>
    /\ UNCHANGED <<created, relCount, enqLog, lateCall, atRelease,
                   atDeleteLater, uaf>>

\* f->Release();   (CServiceFunction::Release: delete this)
WFRelease ==
    /\ Running /\ wpc = "frel"
    /\ relCount' = [relCount EXCEPT ![f] = @ + 1]
    /\ f' = 0
    /\ wpc' = "loop"
    /\ UNCHANGED <<shared, producerv, shutv, alive, crash, freeCount>>
    /\ UNCHANGED <<created, enqLog, trace, lateCall, atRelease,
                   atDeleteLater, uaf>>

\* After the loop: lock.unlock(); return SafeRelease();
\* scoped_lock::unlock() throws boost::lock_error when the lock is not owned;
\* nothing catches it.
WExit ==
    /\ Running /\ wpc = "exit"
    /\ IF m_Mutex = Worker
       THEN /\ m_Mutex' = 0
            /\ wpc' = "clear"
            /\ crash' = crash
       ELSE /\ crash' = "lock_error"
            /\ UNCHANGED <<m_Mutex, wpc>>
    /\ UNCHANGED <<m_WorkQueue, m_bWork, m_bDeleteLater, cvSignal, f>>
    /\ UNCHANGED <<producerv, shutv, obsv, alive, freeCount>>

\* Clear(): the handle the loop body releases.
ClearVictim(q) == q[1]

\* Clear(): the queue after the loop body's pop.
ClearPop(q) == PopBack(q)

\* SafeRelease(): delete this; ~CServiceThread(): Clear(); one turn of
\*   while (!m_WorkQueue.empty()) { m_WorkQueue[0]->Release(); m_WorkQueue.pop_back(); }
\* or, with the queue empty, the end of the destructor.
\* Deleting a handle that was deleted before is undefined.
WClear ==
    /\ Running /\ wpc = "clear"
    /\ IF m_WorkQueue # <<>>
       THEN LET h == ClearVictim(m_WorkQueue) IN
            /\ relCount' = [relCount EXCEPT ![h] = @ + 1]
            /\ m_WorkQueue' = ClearPop(m_WorkQueue)
            /\ IF relCount[h] >= 1
               THEN crash' \in UBOutcomes("double_delete")
               ELSE crash' = crash
            /\ UNCHANGED <<wpc, alive, freeCount>>
       ELSE /\ alive' = FALSE
            /\ freeCount' = freeCount + 1
            /\ wpc' = "done"
            /\ UNCHANGED <<m_WorkQueue, relCount, crash>>
    /\ UNCHANGED <<m_bWork, m_bDeleteLater, m_Mutex, cvSignal, f>>
    /\ UNCHANGED <<producerv, shutv>>
    /\ UNCHANGED <<created, enqLog, trace, lateCall, atRelease,
                   atDeleteLater, uaf>>

WorkerStep ==
    \/ WStart \/ WLoop \/ WLock \/ WPred \/ WBlock \/ WWake
    \/ WChk1 \/ WChk2 \/ WUnlockRelease \/ WDeq \/ WUnlock
    \/ WRun65 \/ WRun66 \/ WRun67 \/ WFRelease \/ WExit \/ WClear

\* ------------------------------------------------------------------ producers
\* A producer thread enters Post(f), Post(f, pHandler) or TryPost(f) on a live
\* instance.  Only Post(f, pHandler) passes a handler to the handle.
PostBegin(p, kind) ==
    /\ Running /\ alive
    /\ ppc[p] = "idle" /\ nextId <= MaxTasks
    /\ ptask' = [ptask EXCEPT ![p] = nextId]
    /\ nextId' = nextId + 1
    /\ m_pHandler' = [m_pHandler EXCEPT ![nextId] = (kind = "PostHandler")]
    /\ pkind' = [pkind EXCEPT ![p] = kind]
    /\ ppc' = [ppc EXCEPT ![p] = IF kind = "TryPost" THEN "try" ELSE "lock"]
    /\ lateCall' = IF ~m_bWork \/ m_bDeleteLater
                   THEN lateCall \cup {nextId} ELSE lateCall
    /\ UNCHANGED <<shared, workerv, pret, shutv, alive, crash, freeCount>>
    /\ UNCHANGED <<created, relCount, enqLog, trace, atRelease,
                   atDeleteLater, uaf>>

\* Post: boost::mutex::scoped_lock lock(m_Mutex);
PostLock(p) ==
    /\ Running /\ alive
    /\ ppc[p] = "lock" /\ m_Mutex = 0
    /\ m_Mutex' = p
    /\ ppc' = [ppc EXCEPT ![p] = "chk"]
    /\ UNCHANGED <<m_WorkQueue, m_bWork, m_bDeleteLater, cvSignal, workerv>>
    /\ UNCHANGED <<ptask, pkind, pret, nextId, m_pHandler>>
    /\ UNCHANGED <<shutv, obsv, alive, crash, freeCount>>

\* A slip: TryPost reports true although try_to_lock failed.
TryPostLockReportsTrue(p) ==
    /\ Running /\ alive
    /\ ppc[p] = "try"
    /\ IF m_Mutex = 0
       THEN /\ m_Mutex' = p
            /\ ppc' = [ppc EXCEPT ![p] = "chk"]
            /\ pret' = pret
       ELSE /\ m_Mutex' = m_Mutex
            /\ ppc' = [ppc EXCEPT ![p] = "ret"]
            /\ pret' = [pret EXCEPT ![p] = TRUE]
    /\ UNCHANGED <<m_WorkQueue, m_bWork, m_bDeleteLater, cvSignal, workerv>>
    /\ UNCHANGED <<ptask, pkind, nextId, m_pHandler>>
    /\ UNCHANGED <<shutv, obsv, alive, crash, freeCount>>

\* TryPost: scoped_lock lock(m_Mutex, boost::try_to_lock); if (lock) ...
\* else return false;
TryPostLock(p) ==
    /\ Running /\ alive
    /\ ppc[p] = "try"
    /\ IF m_Mutex = 0
       THEN /\ m_Mutex' = p
            /\ ppc' = [ppc EXCEPT ![p] = "chk"]
       ELSE /\ m_Mutex' = m_Mutex
            /\ ppc' = [ppc EXCEPT ![p] = "ret"]
    /\ UNCHANGED <<m_WorkQueue, m_bWork, m_bDeleteLater, cvSignal, workerv>>
    /\ UNCHANGED <<ptask, pkind, pret, nextId, m_pHandler>>
    /\ UNCHANGED <<shutv, obsv, alive, crash, freeCount>>

\* if (!m_bDeleteLater && m_bWork)
PostCheck(p) ==
    /\ Running /\ alive
    /\ ppc[p] = "chk"
    /\ ppc' = [ppc EXCEPT ![p] = IF CanPost THEN "push" ELSE "unlock"]
    /\ UNCHANGED <<shared, workerv, ptask, pkind, pret, nextId, m_pHandler>>
    /\ UNCHANGED <<shutv, obsv, alive, crash, freeCount>>

\* new CServiceFunction(...); m_WorkQueue.push_back(pFunction);
\* m_Condition.notify_all();
PostPush(p) ==
    /\ Running /\ alive
    /\ ppc[p] = "push"
    /\ created' = created \cup {ptask[p]}
    /\ m_WorkQueue' = Append(m_WorkQueue, ptask[p])
    /\ enqLog' = Append(enqLog, ptask[p])
    /\ cvSignal' = NotifyAll
    /\ ppc' = [ppc EXCEPT ![p] = "unlock"]
    /\ UNCHANGED <<m_bWork, m_bDeleteLater, m_Mutex, workerv>>
    /\ UNCHANGED <<ptask, pkind, pret, nextId, m_pHandler>>
    /\ UNCHANGED <<shutv, alive, crash, freeCount>>
    /\ UNCHANGED <<relCount, trace, lateCall, atRelease, atDeleteLater, uaf>>

\* The scoped_lock goes out of scope.  Post returns; TryPost does
\* return true;  (the unlock happens as the return value is produced).
PostUnlock(p) ==
    /\ Running /\ alive
    /\ ppc[p] = "unlock"
    /\ m_Mutex' = 0
    /\ IF pkind[p] = "TryPost"
       THEN /\ ppc' = [ppc EXCEPT ![p] = "ret"]
            /\ pret' = [pret EXCEPT ![p] = TRUE]
            /\ UNCHANGED <<ptask, pkind>>
       ELSE /\ ppc' = [ppc EXCEPT ![p] = "idle"]
            /\ ptask' = [ptask EXCEPT ![p] = 0]
            /\ pkind' = [pkind EXCEPT ![p] = "none"]
            /\ pret' = pret
    /\ UNCHANGED <<m_WorkQueue, m_bWork, m_bDeleteLater, cvSignal, workerv>>
    /\ UNCHANGED <<nextId, m_pHandler>>
    /\ UNCHANGED <<shutv, obsv, alive, crash, freeCount>>

\* The caller of TryPost receives the result: true, or false from the
\* failed try_to_lock.
TryPostReturn(p) ==
    /\ Running
    /\ ppc[p] = "ret"
    /\ ppc' = [ppc EXCEPT ![p] = "idle"]
    /\ ptask' = [ptask EXCEPT ![p] = 0]
    /\ pkind' = [pkind EXCEPT ![p] = "none"]
    /\ pret' = [pret EXCEPT ![p] = FALSE]
    /\ UNCHANGED <<shared, workerv, nextId, m_pHandler>>
    /\ UNCHANGED <<shutv, obsv, alive, crash, freeCount>>

\* The next statement of a call in progress finds the instance deleted: it
\* touches freed memory (the mutex, the flags), which is undefined.
PostAfterDelete(p) ==
    /\ Running /\ ~alive
    /\ ppc[p] \notin {"idle", "ret"}
    /\ uaf' = uaf \cup {"Post"}
    /\ crash' \in UBOutcomes("use_after_free")
    /\ ppc' = [ppc EXCEPT ![p] = "idle"]
    /\ ptask' = [ptask EXCEPT ![p] = 0]
    /\ pkind' = [pkind EXCEPT ![p] = "none"]
    /\ UNCHANGED <<shared, workerv, pret, nextId, m_pHandler>>
    /\ UNCHANGED <<shutv, alive, freeCount>>
    /\ UNCHANGED <<created, relCount, enqLog, trace, lateCall, atRelease,
                   atDeleteLater>>

ProducerProgress(p) ==
    \/ PostLock(p) \/ TryPostLock(p) \/ PostCheck(p) \/ PostPush(p)
    \/ PostUnlock(p) \/ TryPostReturn(p) \/ PostAfterDelete(p)

\* ------------------------------------------------------------------ shutdown
\* Release(): m_bWork = false;   (no lock is taken)
ReleaseSet ==
    /\ Running /\ alive
    /\ rpc = "idle"
    /\ m_bWork' = FALSE
    /\ atRelease' = Range(m_WorkQueue)
    /\ rpc' = "notify"
    /\ UNCHANGED <<m_WorkQueue, m_bDeleteLater, m_Mutex, cvSignal, workerv>>
    /\ UNCHANGED <<producerv, dpc, alive, crash, freeCount>>
    /\ UNCHANGED <<created, relCount, enqLog, trace, lateCall,
                   atDeleteLater, uaf>>

\* Release(): m_Condition.notify_all();
\* If the worker deleted the instance in between, this touches freed memory.
ReleaseNotify ==
    /\ Running
    /\ rpc = "notify"
    /\ rpc' = "done"
    /\ IF alive
       THEN /\ cvSignal' = NotifyAll
            /\ UNCHANGED <<uaf, crash>>
       ELSE /\ uaf' = uaf \cup {"Release"}
            /\ crash' \in UBOutcomes("use_after_free")
            /\ cvSignal' = cvSignal
    /\ UNCHANGED <<m_WorkQueue, m_bWork, m_bDeleteLater, m_Mutex, workerv>>
    /\ UNCHANGED <<producerv, dpc, alive, freeCount>>
    /\ UNCHANGED <<created, relCount, enqLog, trace, lateCall, atRelease,
                   atDeleteLater>>

\* ReleaseAfterWork(): m_bDeleteLater = true;   (no lock is taken)
ReleaseAfterWorkSet ==
    /\ Running /\ alive
    /\ dpc = "idle"
    /\ m_bDeleteLater' = TRUE
    /\ atDeleteLater' = Range(m_WorkQueue)
    /\ dpc' = "notify"
    /\ UNCHANGED <<m_WorkQueue, m_bWork, m_Mutex, cvSignal, workerv>>
    /\ UNCHANGED <<producerv, rpc, alive, crash, freeCount>>
    /\ UNCHANGED <<created, relCount, enqLog, trace, lateCall,
                   atRelease, uaf>>

\* ReleaseAfterWork(): m_Condition.notify_all();
ReleaseAfterWorkNotify ==
    /\ Running
    /\ dpc = "notify"
    /\ dpc' = "done"
    /\ IF alive
       THEN /\ cvSignal' = NotifyAll
            /\ UNCHANGED <<uaf, crash>>
       ELSE /\ uaf' = uaf \cup {"ReleaseAfterWork"}
            /\ crash' \in UBOutcomes("use_after_free")
            /\ cvSignal' = cvSignal
    /\ UNCHANGED <<m_WorkQueue, m_bWork, m_bDeleteLater, m_Mutex, workerv>>
    /\ UNCHANGED <<producerv, rpc, alive, freeCount>>
    /\ UNCHANGED <<created, relCount, enqLog, trace, lateCall, atRelease,
                   atDeleteLater>>

ShutdownProgress == ReleaseNotify \/ ReleaseAfterWorkNotify

\* ------------------------------------------------------------------ system
Next ==
    \/ WorkerStep
    \/ WSpurious
    \/ \E p \in Producers, kind \in PostKinds : PostBegin(p, kind)
    \/ \E p \in Producers : ProducerProgress(p)
    \/ ReleaseSet
    \/ ReleaseAfterWorkSet
    \/ ShutdownProgress

Spec == Init /\ [][Next]_vars

\* Scheduling: every thread that can take its next statement eventually takes
\* it.  Nothing obliges a caller to start a call, nor the condition variable to
\* wake a waiter nobody notified.
FairSpec ==
    /\ Spec
    /\ WF_vars(WorkerStep)
    /\ \A p \in Producers : WF_vars(ProducerProgress(p))
    /\ WF_vars(ShutdownProgress)

TypeOK ==
    /\ m_WorkQueue \in Seq(TaskIds)
    /\ m_bWork \in BOOLEAN /\ m_bDeleteLater \in BOOLEAN
    /\ m_Mutex \in 0..Worker
    /\ cvSignal \in BOOLEAN
    /\ f \in 0..MaxTasks
    /\ crash \in CrashKinds
    /\ nextId \in 1..(MaxTasks + 1)
    /\ uaf \subseteq {"Post", "Release", "ReleaseAfterWork"}

\* ------------------------------------------------------------------ claims
Started == EventIds(trace, "run")
Executed == EventIds(trace, "body")
Count(seq, x) == Cardinality({i \in 1..Len(seq) : seq[i] = x})
ShutdownRequested == rpc # "idle" \/ dpc # "idle"

\* C1: the worker starts tasks in exactly the order in which their push_back
\* happened under the mutex: the sequence of started tasks is always a prefix
\* of the sequence of enqueued tasks, whichever threads posted them.
C1_FifoOrder == IsPrefix(Started, enqLog)

\* Two tasks were started, and the later call was enqueued first.
C1_Witness == Len(Started) = 2 /\ enqLog = <<2, 1>>

\* C2: when only ReleaseAfterWork() was called (Release() never), the worker
\* enters its self-destruction with an empty queue, and every task that was
\* enqueued, those queued at the call included, has run its callable exactly
\* once, in enqueue order.
C2_FullDrain ==
    (wpc \in {"clear", "done"} /\ rpc = "idle") =>
        /\ m_WorkQueue = <<>>
        /\ Executed = enqLog
        /\ atDeleteLater \subseteq Range(Executed)

\* The instance was deleted after a graceful stop requested with two tasks queued.
C2_Witness ==
    /\ ~alive /\ rpc = "idle" /\ dpc # "idle"
    /\ Cardinality(atDeleteLater) = 2
    /\ Len(Executed) = 2

\* C3 (as claimed): once ReleaseAfterWork() has set its flag, the worker
\* eventually deletes the instance.  Runs in which Release() is also called, a
\* callable raises or a handle without handler is run are set aside.
C3_GracefulStopTerminates ==
    (dpc # "idle") ~>
        (~alive \/ rpc # "idle" \/ crash \in {"task_threw", "null_handler"})

\* C4 (as claimed): once Release() has cleared m_bWork, the worker eventually
\* deletes the instance.  Runs in which a callable raises, a handle without
\* handler is run or Clear() deletes a handle twice are set aside.
C4_ImmediateStopTerminates ==
    (rpc # "idle") ~>
        (~alive \/ crash \in {"task_threw", "null_handler", "double_delete"})

\* C5 (as claimed): no task that was still in the queue when Release() cleared
\* m_bWork is ever started.
C5_ReleaseCancelsQueued == \A id \in atRelease : Count(Started, id) = 0

\* C6 (as claimed): no handle is released twice, and once the instance is
\* deleted every handle that was created has been released exactly once.
C6_ReleasedExactlyOnce ==
    /\ \A id \in TaskIds : relCount[id] <= 1
    /\ ~alive => \A id \in created : relCount[id] = 1

\* C7: a Post or TryPost call that begins after Release() or
\* ReleaseAfterWork() set its flag creates no handle, never appears in the
\* queue and is never started.
C7_LatePostIsNoOp ==
    \A id \in lateCall :
        /\ id \notin created
        /\ Count(m_WorkQueue, id) = 0
        /\ Count(enqLog, id) = 0
        /\ Count(Started, id) = 0

\* A call begun after shutdown started took the mutex, made its test and is
\* about to return without having pushed.
C7_Witness ==
    \E p \in Producers :
        /\ ptask[p] \in lateCall
        /\ ppc[p] = "unlock"
        /\ alive

\* C8 (as claimed): while no shutdown is requested (and no callable raises),
\* every task appended to the queue eventually runs its callable.
C8_EveryEnqueuedTaskRuns ==
    \A id \in TaskIds :
        (Count(enqLog, id) > 0) ~>
            (Count(Executed, id) > 0 \/ ShutdownRequested
                \/ crash = "task_threw")

\* C9 (as claimed): the instance is deleted at most once, and neither
\* Release() nor ReleaseAfterWork() touches it after it was deleted.
C9_SingleSelfDestruction ==
    /\ freeCount <= 1
    /\ uaf \cap {"Release", "ReleaseAfterWork"} = {}

\* C10: for a task with a handler, OnCallFunction fires at most once and
\* directly before the callable, OnReturnFunction at most once and directly
\* after it, and both have fired exactly once as soon as Run() has returned;
\* a handle that is being discarded by Clear() has fired no callback.
C10_HookInvocation ==
    /\ \A id \in TaskIds :
          /\ Count(trace, <<"before", id>>) <= 1
          /\ Count(trace, <<"after", id>>) <= 1
          /\ Count(trace, <<"body", id>>) <= 1
    /\ \A i \in 1..Len(trace) :
          LET id == trace[i][2] IN
          /\ (trace[i][1] = "body" /\ m_pHandler[id]) =>
                (i > 1 /\ trace[i - 1] = <<"before", id>>)
          /\ trace[i][1] = "before" =>
                (i = Len(trace) \/ trace[i + 1] = <<"body", id>>)
          /\ trace[i][1] = "after" =>
                (i > 1 /\ trace[i - 1] = <<"body", id>>)
          /\ (trace[i][1] = "body" /\ m_pHandler[id] /\ i = Len(trace)) =>
                (f = id /\ wpc = "run67")
    /\ wpc = "clear" =>
          \A id \in Range(m_WorkQueue) :
              /\ Count(trace, <<"before", id>>) = 0
              /\ Count(trace, <<"after", id>>) = 0

\* One task with a handler has run to the end, and Clear() is discarding another.
C10_Witness ==
    /\ wpc = "clear" /\ m_WorkQueue # <<>>
    /\ \E id \in TaskIds :
          /\ m_pHandler[id]
          /\ Count(trace, <<"after", id>>) = 1
          /\ relCount[id] = 1
    /\ \E id \in Range(m_WorkQueue) : m_pHandler[id]

\* C11 (as claimed): Run() never calls through an absent handler, so the
\* process never ends on a NULL m_pHandler when a task posted without a
\* handler is run.
C11_HandlerIsOptional == crash # "null_handler"

\* C12: TryPost never waits for the mutex, and its result tells lock
\* acquisition only.  A call on a live instance leaves try_to_lock in one step:
\* with the mutex free it owns it and goes on to the shutdown test; with the
\* mutex held it returns false and the queue, the flags, the mutex and the set
\* of handles are unchanged.  It returns true after its unlock, pushed or not,
\* and there is no other way to a return.
C12_TryPostReportsLockOnly ==
    /\ [](\A p \in Producers :
            (Running /\ alive /\ ppc[p] = "try") => ENABLED TryPostLock(p))
    /\ [][\A p \in Producers :
            /\ (alive /\ ppc[p] = "try" /\ ppc'[p] # "try") =>
                  IF m_Mutex = 0
                  THEN m_Mutex' = p /\ ppc'[p] = "chk"
                  ELSE /\ ppc'[p] = "ret" /\ pret'[p] = FALSE
                       /\ UNCHANGED <<m_WorkQueue, m_bWork, m_bDeleteLater,
                                      m_Mutex, created>>
            /\ (alive /\ pkind[p] = "TryPost" /\ ppc[p] = "unlock"
                    /\ ppc'[p] # "unlock") =>
                  (m_Mutex = p /\ ppc'[p] = "ret" /\ pret'[p] = TRUE)
            /\ (ppc[p] # "ret" /\ ppc'[p] = "ret") =>
                  ppc[p] \in {"try", "unlock"}]_vars

\* One TryPost is returning false, its task never created, while another is
\* returning true without having enqueued, shutdown having begun.
C12_Witness ==
    \E p, q \in Producers :
        /\ ppc[p] = "ret" /\ pret[p] = FALSE /\ ptask[p] \notin created
        /\ ppc[q] = "ret" /\ pret[q] = TRUE /\ ptask[q] \notin created
        /\ ShutdownRequested /\ alive

\* The step appends one handle, made by a producer at its push_back that owns
\* the mutex.
PushUnderMutex ==
    \E p \in Producers :
        /\ ppc[p] = "push" /\ m_Mutex = p
        /\ m_WorkQueue' = Append(m_WorkQueue, ptask[p])

\* The step is the worker's pop_front, made while the worker owns the mutex.
DequeueUnderMutex ==
    /\ wpc = "deq" /\ m_Mutex = Worker
    /\ m_WorkQueue' = PopFront(m_WorkQueue)

\* C13 (as claimed): every change of the queue, a push, the worker's dequeue
\* or a removal by Clear(), is made by a thread that owns the mutex.
C13_QueueMutatedUnderMutex ==
    [][m_WorkQueue' # m_WorkQueue =>
          \/ PushUnderMutex
          \/ DequeueUnderMutex
          \/ (wpc = "clear" /\ m_Mutex = Worker)]_vars

\* C13 (amended): every push and every dequeue is made by a thread that owns
\* the mutex; the removals by Clear() are made after the worker has given the
\* mutex up, at a time when no producer is at a push_back.
C13_QueueMutationDiscipline ==
    [][m_WorkQueue' # m_WorkQueue =>
          \/ PushUnderMutex
          \/ DequeueUnderMutex
          \/ /\ wpc = "clear" /\ m_Mutex # Worker
             /\ \A p \in Producers : ppc[p] # "push"
             /\ m_WorkQueue' = ClearPop(m_WorkQueue)]_vars

\* A task was pushed and dequeued under the mutex and run, and Clear() has
\* removed another, discarded, handle without the mutex.
C13_Witness ==
    /\ wpc \in {"clear", "done"} /\ m_Mutex # Worker
    /\ Len(Started) >= 1
    /\ \E id \in created : relCount[id] >= 1 /\ Count(Started, id) = 0

\* C14 (as claimed): a flag is written only by a thread that owns the mutex:
\* m_bWork changes only in a step of the Release() caller made while that
\* caller owns the mutex, m_bDeleteLater only in a step of the
\* ReleaseAfterWork() caller made while that caller owns it.  Then no flag
\* changes between another owner's test of the flags and what it does next.
C14_FlagsWrittenUnderMutex ==
    [][/\ m_bWork' # m_bWork => m_Mutex = ReleaseCaller
       /\ m_bDeleteLater' # m_bDeleteLater => m_Mutex = ReleaseAfterWorkCaller]_vars

\* C15 (as claimed): once ReleaseAfterWork() has set m_bDeleteLater, no step
\* makes the queue longer.
C15_NoGrowthAfterDeleteLater ==
    [][m_bDeleteLater => Len(m_WorkQueue') <= Len(m_WorkQueue)]_vars

InRun == wpc \in {"run65", "run66", "run67"}

\* C16: while the worker is inside a task's Run() it does not own the mutex,
\* and a Post waiting for the mutex can take it unless another producer has it.
C16_NoLockWhileRunning ==
    InRun =>
        /\ m_Mutex # Worker
        /\ \A p \in Producers :
              (Running /\ alive /\ ppc[p] = "lock" /\ m_Mutex \notin Producers)
                  => ENABLED PostLock(p)

\* The worker is in the callable of one task while a producer, having taken
\* the mutex after the worker's unlock, has enqueued another and is returning.
C16_Witness ==
    /\ wpc = "run66" /\ f # 0
    /\ \E p \in Producers :
          /\ ppc[p] = "unlock" /\ m_Mutex = p
          /\ ptask[p] \in Range(m_WorkQueue)

\* C17: when a callable fails, the failure ends the worker inside Run(): that
\* task's OnReturnFunction is never invoked, its callable is not recorded as
\* completed, and the last thing the worker ever did belongs to that task (no
\* queued task is started afterwards).
C17_FailureNotIntercepted ==
    crash = "task_threw" =>
        /\ wpc = "run66" /\ f # 0
        /\ Count(trace, <<"after", f>>) = 0
        /\ Count(trace, <<"body", f>>) = 0
        /\ trace # <<>> /\ trace[Len(trace)][2] = f

\* The callable of a task with a handler failed after OnCallFunction, with
\* another task still queued.
C17_Witness ==
    /\ crash = "task_threw"
    /\ m_pHandler[f] /\ Count(trace, <<"before", f>>) = 1
    /\ m_WorkQueue # <<>>

\* C18 (as claimed): at each of its lock.unlock() statements the worker owns
\* the mutex.
C18_UnlockOnlyWhenOwned ==
    wpc \in {"unlock149", "unlock155", "unlock162", "exit"} => m_Mutex = Worker

\* C19: at the dequeue step the queue is not empty, so the worker never reads
\* the front of an empty deque, whatever Post, TryPost, Release() and
\* ReleaseAfterWork() do in between.
C19_DequeueNeverEmpty ==
    /\ wpc = "deq" => m_WorkQueue # <<>>
    /\ crash # "empty_front"

\* The worker has dequeued a task that was queued when Release() cleared
\* m_bWork, with m_bDeleteLater set as well: both flags were written around
\* its tests.
C19_Witness ==
    /\ wpc = "unlock162"
    /\ f \in atRelease
    /\ m_bDeleteLater
====
